---- MODULE Spec2Model ----
(***************************************************************************)
(* A model of mitchell_schaeffer/ops.py: the right-hand sides of the       *)
(* Mitchell-Schaeffer two-variable cardiac cell model.                     *)
(*                                                                         *)
(* The functions of ops.py compute on Python floats.  A float is modelled  *)
(* as a binary floating-point number of a small format with the structure  *)
(* of IEEE 754 binary64: Prec significant bits, gradual underflow, round   *)
(* to nearest with ties to even, overflow to infinity, NaN.  A finite      *)
(* float is the integer count of its units, one unit being the smallest    *)
(* positive (subnormal) float, so 1.0 is Scale units.  The sign of zero is *)
(* not modelled: Python's == does not tell -0.0 from 0.0.                  *)
(***************************************************************************)
EXTENDS Integers, Sequences, FiniteSets, TLC

VARIABLES call, heap, held, loop, thr

vars == <<call, heap, held, loop, thr>>

\* The mappings a caller may come to hold at once.
MaxObjects == 3

\* The integration steps a caller's loop takes.
MaxSteps == 3

\* The callers running at once.
NThreads == 2

----------------------------------------------------------------------------
(* The float format. *)

\* Significant bits of a float (53 in binary64).
Prec == 3

\* Exponent bias (1023 in binary64): exponents run from 1 - Bias to Bias.
Bias == 7

\* 1.0 in units: the smallest subnormal is 2^(1 - Bias - (Prec - 1)).
Scale == 2 ^ (Bias + Prec - 2)

\* The largest finite float, in units: (2^Prec - 1) * 2^(Bias - Prec + 1).
MaxFinite == (2 ^ Prec - 1) * 2 ^ (2 * Bias - 1)

\* The smallest positive normal float, in units.
MinNormal == 2 ^ (Prec - 1)

Inf == MaxFinite + 1

NaN == MaxFinite + 2

One == Scale

IsNaN(x) == x = NaN

IsFinite(x) == -MaxFinite <= x /\ x <= MaxFinite

Abs(x) == IF x < 0 THEN -x ELSE x

\* The sign of the product or quotient of two non-NaN floats.
SignOf(a, b) == IF (a < 0) = (b < 0) THEN 1 ELSE -1

\* The number of low bits a magnitude q loses to fit in Prec bits.
RECURSIVE Shift(_)
Shift(q) == IF q < 2 ^ Prec THEN 0 ELSE 1 + Shift(q \div 2)

\* n / d units (n >= 0, d > 0) rounded to the nearest float, ties to the
\* even significand; a result beyond MaxFinite is infinity.
RoundMag(n, d) ==
    LET s == Shift(n \div d)
        g == d * 2 ^ s
        m == n \div g
        r == n - m * g
        up == IF 2 * r > g \/ (2 * r = g /\ m % 2 = 1) THEN 1 ELSE 0
        k == (m + up) * 2 ^ s
    IN  IF k > MaxFinite THEN Inf ELSE k

\* The largest power of two that divides both x and lim (a power of two).
RECURSIVE CommonPow2(_, _)
CommonPow2(x, lim) ==
    IF lim > 1 /\ x % 2 = 0 /\ x > 0 THEN 2 * CommonPow2(x \div 2, lim \div 2) ELSE 1

\* A decimal literal n/d of the source, read as a float.
Lit(n, d) == RoundMag(n * Scale, d)

FNeg(a) == IF IsNaN(a) THEN NaN ELSE -a

FAdd(a, b) ==
    IF IsNaN(a) \/ IsNaN(b) THEN NaN
    ELSE IF Abs(a) = Inf /\ Abs(b) = Inf THEN (IF a = b THEN a ELSE NaN)
    ELSE IF Abs(a) = Inf THEN a
    ELSE IF Abs(b) = Inf THEN b
    ELSE IF a + b < 0 THEN -RoundMag(-(a + b), 1) ELSE RoundMag(a + b, 1)

FSub(a, b) == FAdd(a, FNeg(b))

\* The product of two finite magnitudes x >= y, the common factor of x and
\* Scale cancelled before multiplying.
MulMag(x, y) ==
    LET c == CommonPow2(x, Scale)
    IN  RoundMag((x \div c) * y, Scale \div c)

FMul(a, b) ==
    IF IsNaN(a) \/ IsNaN(b) THEN NaN
    ELSE IF Abs(a) = Inf \/ Abs(b) = Inf
         THEN (IF a = 0 \/ b = 0 THEN NaN ELSE SignOf(a, b) * Inf)
    ELSE SignOf(a, b) * (IF Abs(a) >= Abs(b) THEN MulMag(Abs(a), Abs(b))
                                            ELSE MulMag(Abs(b), Abs(a)))

\* a / b for b # 0 (Python raises before dividing by zero).
FDiv(a, b) ==
    IF IsNaN(a) \/ IsNaN(b) THEN NaN
    ELSE IF Abs(b) = Inf THEN (IF Abs(a) = Inf THEN NaN ELSE 0)
    ELSE IF Abs(a) = Inf THEN SignOf(a, b) * Inf
    ELSE SignOf(a, b) * RoundMag(Abs(a) * Scale, Abs(b))

\* a < b on floats: false when either is NaN.
FLt(a, b) == ~IsNaN(a) /\ ~IsNaN(b) /\ a < b

\* The finite floats: subnormals and zero below MinNormal, then Prec-bit
\* significands shifted.
Finite ==
    LET pos == {m * 2 ^ s : m \in 0 .. (2 ^ Prec - 1), s \in 0 .. (2 * Bias - 1)}
    IN  pos \cup {-k : k \in pos}

----------------------------------------------------------------------------
(* Outcomes of a call: a returned float, or a raised exception. *)

Return(v) == [exc |-> "", val |-> v]

Raise(e) == [exc |-> e, val |-> 0]

\* a / b as Python evaluates it: float division by zero raises.
Div(a, b) == IF b = 0 THEN Raise("ZeroDivisionError") ELSE Return(FDiv(a, b))

\* u ** 2: float_pow raises OverflowError when the result overflows.
Pow2(u) ==
    IF IsNaN(u) THEN Return(NaN)
    ELSE IF Abs(u) = Inf THEN Return(Inf)
    ELSE IF MulMag(Abs(u), Abs(u)) = Inf THEN Raise("OverflowError")
    ELSE Return(MulMag(Abs(u), Abs(u)))

----------------------------------------------------------------------------
(* Python dict objects: heap[r] is the mapping stored at reference r. *)

SetItem(d, k, v) == [x \in DOMAIN d \cup {k} |-> IF x = k THEN v ELSE d[x]]

DelItem(d, k) == [x \in DOMAIN d \ {k} |-> d[x]]

\* A dict display builds a new object: the heap grows by one mapping.
NewDict(hp, d) == [heap |-> Append(hp, d), ref |-> Len(hp) + 1]

\* Variant: the mapping is built once, at import, and every call of the
\* accessor op returns that object.
SharedDict(hp, op, d) ==
    IF \E r \in DOMAIN hp : held[r] = op
    THEN [heap |-> hp, ref |-> CHOOSE r \in DOMAIN hp : held[r] = op]
    ELSE NewDict(hp, d)

----------------------------------------------------------------------------
(* Names: a function's parameters and the names it assigns are local to    *)
(* the call; fr[t] is the frame of caller t's call.                        *)

\* Variant: the name is a module-level global, one binding for all calls.
BindGlobal(fr, t, name, v) == [x \in DOMAIN fr |-> SetItem(fr[x], name, v)]

BindLocal(fr, t, name, v) == [fr EXCEPT ![t] = SetItem(fr[t], name, v)]

----------------------------------------------------------------------------
(* ops.py *)

\* Variant: a module-level default state returned by every call.
get_variables_shared(hp) ==
    SharedDict(hp, "get_variables", [u |-> Lit(0, 1), h |-> Lit(1, 1)])

get_variables(hp) == NewDict(hp, [u |-> Lit(0, 1), h |-> Lit(1, 1)])

\* Variant: a module-level default parameter set returned by every call.
get_parameters_shared(hp) ==
    SharedDict(hp, "get_parameters",
               [tau_close |-> Lit(150, 1), tau_open |-> Lit(120, 1),
                tau_out |-> Lit(6, 1), tau_in |-> Lit(3, 10),
                u_gate |-> Lit(13, 100)])

get_parameters(hp) ==
    NewDict(hp, [tau_close |-> Lit(150, 1), tau_open |-> Lit(120, 1),
                 tau_out |-> Lit(6, 1), tau_in |-> Lit(3, 10),
                 u_gate |-> Lit(13, 100)])

\* Variant: the currents subtracted.
calc_rhs_minus(J_in, J_out) == Return(FSub(J_in, J_out))

calc_rhs(J_in, J_out) == Return(FAdd(J_in, J_out))

\* Variant: the threshold compared with <=.
calc_dh_le(h, u, tau_close, tau_open, u_gate) ==
    IF FLt(u, u_gate) \/ u = u_gate THEN Div(FSub(One, h), tau_open)
                                    ELSE Div(FNeg(h), tau_close)

\* Variant: the comparison reversed.
calc_dh_flipped(h, u, tau_close, tau_open, u_gate) ==
    IF FLt(u_gate, u) THEN Div(FSub(One, h), tau_open)
                      ELSE Div(FNeg(h), tau_close)

\* Variant: the sign of the decay branch dropped.
calc_dh_grow(h, u, tau_close, tau_open, u_gate) ==
    IF FLt(u, u_gate) THEN Div(FSub(One, h), tau_open)
                      ELSE Div(h, tau_close)

\* Variant: both branches evaluated before one is selected.
calc_dh_eager(h, u, tau_close, tau_open, u_gate) ==
    LET open == Div(FSub(One, h), tau_open)
        close == Div(FNeg(h), tau_close)
    IN  IF open.exc # "" THEN open
        ELSE IF close.exc # "" THEN close
        ELSE IF FLt(u, u_gate) THEN open ELSE close

calc_dh(h, u, tau_close, tau_open, u_gate) ==
    IF FLt(u, u_gate) THEN Div(FSub(One, h), tau_open)
                      ELSE Div(FNeg(h), tau_close)

\* (u**2)*(1-u), the right-hand side of the assignment to C.
CProduct(u) ==
    LET sq == Pow2(u)
    IN  IF sq.exc # "" THEN sq ELSE Return(FMul(sq.val, FSub(One, u)))

\* Variant: the factors multiplied from left to right, h first.
calc_J_in_ltr(u, h, tau_in) ==
    LET sq == Pow2(u)
    IN  IF sq.exc # "" THEN sq
        ELSE Div(FMul(FMul(h, sq.val), FSub(One, u)), tau_in)

calc_J_in(u, h, tau_in) ==
    LET C == CProduct(u)
    IN  IF C.exc # "" THEN C ELSE Div(FMul(h, C.val), tau_in)

\* Variant: the sign dropped.
calc_J_out_pos(u, tau_out) == Div(u, tau_out)

calc_J_out(u, tau_out) == Div(FNeg(u), tau_out)

----------------------------------------------------------------------------
(* Arguments the callers pass. *)

Half == One \div 2

\* Floats with one, two and three significant bits, of either sign, inside
\* and outside [0, 1], subnormal and huge.
HSample ==
    {0, 1, Lit(3, 10), Half, Lit(3, 4), One, Lit(5, 4), MaxFinite,
     -1, -Lit(3, 4), -One}

USample == {0, 1, Lit(13, 100), Lit(2, 10), One, -Half}

GateSample == {Lit(13, 100), 0}

\* Time constants passed to calc_dh: zero, positive and negative.
DhTauSample == {0, 1, One, Lit(150, 1), -One}

TauSample == {0, 1, Lit(3, 10), One, Lit(6, 1), Lit(150, 1), MaxFinite, -One}

Floats == Finite \cup {Inf, -Inf, NaN}

----------------------------------------------------------------------------
(* State: a call of one of the four equations (call), the mappings handed  *)
(* out by the accessors (heap, held), a caller's integration loop (loop)   *)
(* and concurrent callers (thr).                                           *)

Pending(op, args) == [op |-> op, args |-> args, done |-> FALSE, ret |-> Return(0)]

DhCalls ==
    {Pending("calc_dh", <<h, u, tau_close, tau_open, u_gate>>) :
        h \in Finite, u \in USample, tau_close \in DhTauSample,
        tau_open \in DhTauSample, u_gate \in GateSample}

JinCalls ==
    {Pending("calc_J_in", <<u, h, tau_in>>) :
        u \in Finite, h \in HSample, tau_in \in TauSample}

JoutCalls ==
    {Pending("calc_J_out", <<u, tau_out>>) : u \in Finite, tau_out \in Finite}

RhsCalls ==
    {Pending("calc_rhs", <<J_in, J_out>>) : J_in \in Floats, J_out \in Floats}

Idle ==
    /\ heap = <<>>
    /\ held = <<>>
    /\ loop = 0
    /\ thr = 0

\* A caller about to call one of the equations with arguments of its choice.
Init ==
    /\ \/ call \in DhCalls
       \/ call \in JinCalls
       \/ call \in JoutCalls
       \/ call \in RhsCalls
    /\ Idle

CallDh ==
    /\ call.op = "calc_dh" /\ ~call.done
    /\ call' = [call EXCEPT !.done = TRUE,
                            !.ret = calc_dh(call.args[1], call.args[2], call.args[3],
                                            call.args[4], call.args[5])]
    /\ UNCHANGED <<heap, held, loop, thr>>

CallJin ==
    /\ call.op = "calc_J_in" /\ ~call.done
    /\ call' = [call EXCEPT !.done = TRUE,
                            !.ret = calc_J_in(call.args[1], call.args[2], call.args[3])]
    /\ UNCHANGED <<heap, held, loop, thr>>

CallJout ==
    /\ call.op = "calc_J_out" /\ ~call.done
    /\ call' = [call EXCEPT !.done = TRUE,
                            !.ret = calc_J_out(call.args[1], call.args[2])]
    /\ UNCHANGED <<heap, held, loop, thr>>

CallRhs ==
    /\ call.op = "calc_rhs" /\ ~call.done
    /\ call' = [call EXCEPT !.done = TRUE,
                            !.ret = calc_rhs(call.args[1], call.args[2])]
    /\ UNCHANGED <<heap, held, loop, thr>>

Next == CallDh \/ CallJin \/ CallJout \/ CallRhs

Spec == Init /\ [][Next]_vars

----------------------------------------------------------------------------
(* A caller of the accessors: it calls get_variables and get_parameters,   *)
(* keeps every mapping returned (held[r] names the accessor that returned  *)
(* reference r) and changes, adds and removes keys of the mappings held.   *)

\* The keys a caller writes or deletes in a mapping it got from op.
MutableKeys(op) ==
    IF op = "get_variables" THEN {"u", "x"} ELSE {"tau_in", "x"}

InitHeap ==
    /\ call = Pending("none", <<>>)
    /\ Idle

GetVariables ==
    /\ Len(heap) < MaxObjects
    /\ LET got == get_variables(heap)
       IN  /\ heap' = got.heap
           /\ held' = [r \in DOMAIN got.heap |->
                          IF r = got.ref THEN "get_variables" ELSE held[r]]
           /\ call' = [op |-> "get_variables", args |-> <<>>, done |-> TRUE,
                       ret |-> Return(got.ref)]
    /\ UNCHANGED <<loop, thr>>

GetParameters ==
    /\ Len(heap) < MaxObjects
    /\ LET got == get_parameters(heap)
       IN  /\ heap' = got.heap
           /\ held' = [r \in DOMAIN got.heap |->
                          IF r = got.ref THEN "get_parameters" ELSE held[r]]
           /\ call' = [op |-> "get_parameters", args |-> <<>>, done |-> TRUE,
                       ret |-> Return(got.ref)]
    /\ UNCHANGED <<loop, thr>>

\* d[k] = v on a mapping held: the key is changed, or added.
CallerSetItem ==
    /\ \E r \in DOMAIN heap : \E k \in MutableKeys(held[r]) :
          /\ heap' = [heap EXCEPT ![r] = SetItem(heap[r], k, Half)]
          /\ call' = [op |-> "setitem", args |-> <<r, k>>, done |-> TRUE,
                      ret |-> Return(0)]
    /\ UNCHANGED <<held, loop, thr>>

\* del d[k] on a mapping held.
CallerDelItem ==
    /\ \E r \in DOMAIN heap : \E k \in MutableKeys(held[r]) \cap DOMAIN heap[r] :
          /\ heap' = [heap EXCEPT ![r] = DelItem(heap[r], k)]
          /\ call' = [op |-> "delitem", args |-> <<r, k>>, done |-> TRUE,
                      ret |-> Return(0)]
    /\ UNCHANGED <<held, loop, thr>>

NextHeap == GetVariables \/ GetParameters \/ CallerSetItem \/ CallerDelItem

SpecHeap == InitHeap /\ [][NextHeap]_vars

----------------------------------------------------------------------------
(* A caller's explicit Euler loop over both state variables: each step     *)
(* computes J_in, J_out, du and dh from the current (u, h) and advances    *)
(* u += dt * du, h += dt * dh.  A step that raises ends the loop.          *)

\* States a caller starts from besides the defaults.
OtherStarts == {<<Lit(2, 10), One>>, <<Half, One>>, <<0, Half>>, <<Half, Half>>}

DtSample == {Lit(1, 10), One}

\* The caller has fetched the defaults; it starts from them or from a state
\* of its own.
InitRest ==
    LET vs == get_variables(<<>>)
        ps == get_parameters(vs.heap)
    IN  /\ heap = ps.heap
        /\ held = <<"get_variables", "get_parameters">>
        /\ call = Pending("none", <<>>)
        /\ thr = 0
        /\ \/ loop = [u |-> heap[vs.ref]["u"], h |-> heap[vs.ref]["h"],
                      p |-> heap[ps.ref], start |-> "default", st |-> "run",
                      n |-> 0, dt |-> 0, du |-> 0, dh |-> 0]
           \/ \E s \in OtherStarts :
                  loop = [u |-> s[1], h |-> s[2],
                          p |-> heap[ps.ref], start |-> "other", st |-> "run",
                          n |-> 0, dt |-> 0, du |-> 0, dh |-> 0]

\* The derivatives at (u, h) under the parameters p: <<du, dh>> as outcomes.
Derivatives(u, h, p) ==
    LET J_in == calc_J_in(u, h, p["tau_in"])
        J_out == calc_J_out(u, p["tau_out"])
        du == IF J_in.exc # "" THEN J_in
              ELSE IF J_out.exc # "" THEN J_out
              ELSE calc_rhs(J_in.val, J_out.val)
        dh == calc_dh(h, u, p["tau_close"], p["tau_open"], p["u_gate"])
    IN  <<du, dh>>

EulerStep ==
    /\ loop.st = "run" /\ loop.n < MaxSteps
    /\ \E d \in {Derivatives(loop.u, loop.h, loop.p)} :
       \E dt \in (IF loop.start = "default" THEN Finite ELSE DtSample) :
          IF d[1].exc # "" \/ d[2].exc # ""
          THEN loop' = [loop EXCEPT !.st = "raised", !.n = @ + 1, !.dt = dt]
          ELSE loop' = [loop EXCEPT
                           !.u = FAdd(@, FMul(dt, d[1].val)),
                           !.h = FAdd(@, FMul(dt, d[2].val)),
                           !.n = @ + 1, !.dt = dt,
                           !.du = d[1].val, !.dh = d[2].val]
    /\ UNCHANGED <<call, heap, held, thr>>

NextRest == EulerStep

SpecRest == InitRest /\ [][NextRest]_vars

----------------------------------------------------------------------------
(* A caller's Euler loop over the gate alone: h += dt * calc_dh(...) with  *)
(* the potential u given from outside at every step, time constants        *)
(* tau > 0 and a step 0 < dt <= min(tau_open, tau_close).                  *)

\* Positive time constants: subnormal, normal below 1.0, 1.0 and above.
PosTauSample == {1, 2, MinNormal, Lit(3, 10), One, Lit(3, 2), Lit(6, 1), Lit(150, 1)}

\* Potentials below, at and above the threshold.
GateUSample == {0, Lit(13, 100), One}

Min(a, b) == IF a <= b THEN a ELSE b

\* The steps allowed under a time constant tau.
GateSteps(tau) == {k \in Finite : 0 < k /\ k <= tau}

InitGate ==
    /\ call = Pending("none", <<>>)
    /\ heap = <<>>
    /\ held = <<>>
    /\ thr = 0
    /\ \E h \in {k \in Finite : 0 <= k /\ k <= One},
          tau_close \in PosTauSample, tau_open \in PosTauSample :
          loop = [u |-> 0, h |-> h,
                  p |-> [tau_close |-> tau_close, tau_open |-> tau_open,
                         u_gate |-> Lit(13, 100)],
                  st |-> "run", half |-> TRUE, dir |-> "none"]

\* One step; half records whether every step so far was at most half of
\* both time constants, dir the sign of the derivative of the last step.
GateStep ==
    /\ loop.st = "run"
    /\ \E u \in GateUSample :
       \E dh \in {calc_dh(loop.h, u, loop.p["tau_close"], loop.p["tau_open"],
                          loop.p["u_gate"])} :
       \E dt \in GateSteps(Min(loop.p["tau_open"], loop.p["tau_close"])) :
          IF dh.exc # ""
          THEN loop' = [loop EXCEPT !.st = "raised"]
          ELSE loop' = [loop EXCEPT
                           !.u = u,
                           !.h = FAdd(@, FMul(dt, dh.val)),
                           !.half = @ /\ 2 * dt <= Min(loop.p["tau_open"],
                                                       loop.p["tau_close"]),
                           !.dir = IF FLt(dh.val, 0) THEN "down"
                                   ELSE IF FLt(0, dh.val) THEN "up" ELSE "flat"]
    /\ UNCHANGED <<call, heap, held, thr>>

NextGate == GateStep

SpecGate == InitGate /\ [][NextGate]_vars

----------------------------------------------------------------------------
(* Concurrent callers: each makes one call, which runs statement by        *)
(* statement interleaved with the calls of the others.  thr[t] holds the   *)
(* call of caller t: the function, the arguments, the caller's own         *)
(* variables that it passed (own), the line reached (pc) and the outcome;  *)
(* frames are in thr[t].frame, dict objects in the shared heap.            *)

Threads == 1 .. NThreads

ParamNames(fn) ==
    IF fn = "calc_dh" THEN <<"h", "u", "tau_close", "tau_open", "u_gate">>
    ELSE IF fn = "calc_J_in" THEN <<"u", "h", "tau_in">>
    ELSE IF fn = "calc_J_out" THEN <<"u", "tau_out">>
    ELSE IF fn = "calc_rhs" THEN <<"J_in", "J_out">>
    ELSE <<>>

\* The line of the first statement of fn.
FirstLine(fn) ==
    IF fn = "calc_dh" THEN "80"
    ELSE IF fn = "calc_J_in" THEN "108"
    ELSE IF fn = "calc_J_out" THEN "132"
    ELSE IF fn = "calc_rhs" THEN "49"
    ELSE IF fn = "get_variables" THEN "35"
    ELSE "42"

\* The arguments bound to the parameter names.
Bound(fn, args) ==
    [x \in {ParamNames(fn)[i] : i \in DOMAIN args} |->
        args[CHOOSE i \in DOMAIN args : ParamNames(fn)[i] = x]]

ConcCalls ==
    {<<"calc_dh", <<Half, 0, Lit(150, 1), Lit(120, 1), Lit(13, 100)>>>>,
     <<"calc_dh", <<Lit(3, 4), Lit(2, 10), Lit(150, 1), 0, Lit(13, 100)>>>>,
     <<"calc_dh", <<Half, 0, Lit(150, 1), 0, Lit(13, 100)>>>>,
     <<"calc_J_in", <<Half, One, Lit(3, 10)>>>>,
     <<"calc_J_in", <<Lit(2, 10), Lit(3, 4), Lit(3, 10)>>>>,
     <<"calc_J_in", <<MaxFinite, One, Lit(3, 10)>>>>,
     <<"calc_J_out", <<Half, Lit(6, 1)>>>>,
     <<"calc_J_out", <<One, 0>>>>,
     <<"calc_rhs", <<One, -Half>>>>,
     <<"get_variables", <<>>>>,
     <<"get_parameters", <<>>>>}

NoCall ==
    [fn |-> "none", args |-> <<>>, own |-> <<>>, frame |-> <<>>, pc |-> "idle",
     ret |-> Return(0)]

InitConc ==
    /\ call = Pending("none", <<>>)
    /\ heap = <<>>
    /\ held = <<>>
    /\ loop = 0
    /\ thr = [t \in Threads |-> NoCall]

Frames == [t \in Threads |-> thr[t].frame]

\* The frames fr put back into the calls, caller t at line pc.
Goto(fr, t, pc) ==
    [x \in Threads |-> IF x = t THEN [thr[x] EXCEPT !.frame = fr[x], !.pc = pc]
                                ELSE [thr[x] EXCEPT !.frame = fr[x]]]

\* Caller t's call ends with the outcome r.
Finish(t, r) == [thr EXCEPT ![t].pc = "done", ![t].ret = r]

\* Caller t calls fn(args): the parameters are bound in a new frame.
Begin(t) ==
    /\ thr[t].pc = "idle"
    /\ \E c \in ConcCalls :
          thr' = [thr EXCEPT ![t] = [fn |-> c[1], args |-> c[2], own |-> c[2],
                                     frame |-> Bound(c[1], c[2]),
                                     pc |-> FirstLine(c[1]), ret |-> Return(0)]]
    /\ UNCHANGED <<call, heap, held, loop>>

\* return {"u": 0.0, "h": 1.0}
Line35(t) ==
    /\ thr[t].pc = "35"
    /\ \E got \in {get_variables(heap)} :
          /\ heap' = got.heap
          /\ held' = Append(held, "get_variables")
          /\ thr' = Finish(t, Return(got.ref))
    /\ UNCHANGED <<call, loop>>

\* return {"tau_close": 150.0, ...}
Line42(t) ==
    /\ thr[t].pc = "42"
    /\ \E got \in {get_parameters(heap)} :
          /\ heap' = got.heap
          /\ held' = Append(held, "get_parameters")
          /\ thr' = Finish(t, Return(got.ref))
    /\ UNCHANGED <<call, loop>>

\* return J_in + J_out
Line49(t) ==
    /\ thr[t].pc = "49"
    /\ thr' = Finish(t, calc_rhs(thr[t].frame["J_in"], thr[t].frame["J_out"]))
    /\ UNCHANGED <<call, heap, held, loop>>

\* h = (1.0 - h) / tau_open if u < u_gate else -h / tau_close
Line80(t) ==
    /\ thr[t].pc = "80"
    /\ \E r \in {calc_dh(thr[t].frame["h"], thr[t].frame["u"],
                         thr[t].frame["tau_close"], thr[t].frame["tau_open"],
                         thr[t].frame["u_gate"])} :
          thr' = IF r.exc # "" THEN Finish(t, r)
                 ELSE Goto(BindLocal(Frames, t, "h", r.val), t, "81")
    /\ UNCHANGED <<call, heap, held, loop>>

\* return h
Line81(t) ==
    /\ thr[t].pc = "81"
    /\ thr' = Finish(t, Return(thr[t].frame["h"]))
    /\ UNCHANGED <<call, heap, held, loop>>

\* C = (u**2)*(1-u)
Line108(t) ==
    /\ thr[t].pc = "108"
    /\ \E r \in {CProduct(thr[t].frame["u"])} :
          thr' = IF r.exc # "" THEN Finish(t, r)
                 ELSE Goto(BindLocal(Frames, t, "C", r.val), t, "109")
    /\ UNCHANGED <<call, heap, held, loop>>

\* return h*C/tau_in
Line109(t) ==
    /\ thr[t].pc = "109"
    /\ thr' = Finish(t, Div(FMul(thr[t].frame["h"], thr[t].frame["C"]),
                            thr[t].frame["tau_in"]))
    /\ UNCHANGED <<call, heap, held, loop>>

\* return -u/tau_out
Line132(t) ==
    /\ thr[t].pc = "132"
    /\ thr' = Finish(t, calc_J_out(thr[t].frame["u"], thr[t].frame["tau_out"]))
    /\ UNCHANGED <<call, heap, held, loop>>

NextConc ==
    \E t \in Threads :
        \/ Begin(t)
        \/ Line35(t)
        \/ Line42(t)
        \/ Line49(t)
        \/ Line80(t)
        \/ Line81(t)
        \/ Line108(t)
        \/ Line109(t)
        \/ Line132(t)

SpecConc == InitConc /\ [][NextConc]_vars

----------------------------------------------------------------------------
(* Properties of the four equations, checked under Spec. *)

Done(op) == call.op = op /\ call.done

Arg(i) == call.args[i]

\* C1: for tau_close > 0 and tau_open > 0, calc_dh returns (1 - h) / tau_open
\* when u < u_gate and -h / tau_close when u >= u_gate; u = u_gate decays.
C1_DhBranches ==
    (Done("calc_dh") /\ Arg(3) > 0 /\ Arg(4) > 0) =>
        /\ Arg(2) < Arg(5) => call.ret = Return(FDiv(FSub(One, Arg(1)), Arg(4)))
        /\ Arg(2) >= Arg(5) => call.ret = Return(FDiv(FNeg(Arg(1)), Arg(3)))

\* C1 witness: a call at the boundary u = u_gate that returned the decay
\* value, which differs from the recovery value.
C1_Witness ==
    /\ Done("calc_dh") /\ Arg(3) > 0 /\ Arg(4) > 0
    /\ Arg(2) = Arg(5) /\ Arg(1) = Half
    /\ call.ret = Return(FDiv(-Half, Arg(3)))
    /\ call.ret.val < 0

\* The value of the expression h * u**2 * (1 - u) / tau_in, which Python
\* evaluates from left to right.
SpecJin(u, h, tau_in) ==
    LET sq == Pow2(u)
    IN  IF sq.exc # "" THEN sq
        ELSE Div(FMul(FMul(h, sq.val), FSub(One, u)), tau_in)

\* The value of h * ((u**2) * (1 - u)) / tau_in.
GroupedJin(u, h, tau_in) ==
    LET sq == Pow2(u)
    IN  IF sq.exc # "" THEN sq
        ELSE Div(FMul(h, FMul(sq.val, FSub(One, u))), tau_in)

\* C2 as stated: for tau_in > 0, calc_J_in(u, h, tau_in) is exactly
\* h * u**2 * (1 - u) / tau_in, for every input.
C2_Original ==
    (Done("calc_J_in") /\ Arg(3) > 0) =>
        call.ret = SpecJin(Arg(1), Arg(2), Arg(3))

\* C2 amended: for tau_in > 0, calc_J_in(u, h, tau_in) is exactly
\* h * ((u**2) * (1 - u)) / tau_in, the product u**2 * (1 - u) rounded before
\* it is multiplied by h (OverflowError when u**2 overflows); for h = 1.0
\* this is also the value of h * u**2 * (1 - u) / tau_in.
C2_JinGrouped ==
    (Done("calc_J_in") /\ Arg(3) > 0) =>
        /\ call.ret = GroupedJin(Arg(1), Arg(2), Arg(3))
        /\ Arg(2) = One => call.ret = SpecJin(Arg(1), Arg(2), Arg(3))

\* C2 witness: a call whose result differs from the left-to-right product
\* although both are finite.
C2_Witness ==
    /\ Done("calc_J_in") /\ Arg(3) > 0
    /\ call.ret.exc = "" /\ IsFinite(call.ret.val)
    /\ SpecJin(Arg(1), Arg(2), Arg(3)).exc = ""
    /\ IsFinite(SpecJin(Arg(1), Arg(2), Arg(3)).val)
    /\ call.ret # SpecJin(Arg(1), Arg(2), Arg(3))
    /\ call.ret = GroupedJin(Arg(1), Arg(2), Arg(3))

\* C3 as stated: for tau_out > 0, calc_J_out(u, tau_out) is -u / tau_out,
\* zero at u = 0 and strictly negative for every u > 0.
C3_Original ==
    (Done("calc_J_out") /\ Arg(2) > 0) =>
        /\ call.ret = Return(FDiv(FNeg(Arg(1)), Arg(2)))
        /\ Arg(1) = 0 => call.ret.val = 0
        /\ Arg(1) > 0 => call.ret.val < 0

\* C3 amended: for tau_out > 0, calc_J_out(u, tau_out) is -u / tau_out, zero
\* at u = 0, never positive for u > 0, and strictly negative for every u > 0
\* whose quotient u / tau_out is at least the smallest positive float.
C3_JoutSign ==
    (Done("calc_J_out") /\ Arg(2) > 0) =>
        /\ call.ret = Return(FDiv(FNeg(Arg(1)), Arg(2)))
        /\ Arg(1) = 0 => call.ret.val = 0
        /\ Arg(1) > 0 => call.ret.val <= 0
        /\ (Arg(1) > 0 /\ Arg(1) * Scale >= Arg(2)) => call.ret.val < 0

\* C3 witness: a positive u whose quotient underflows to zero.
C3_Witness ==
    /\ Done("calc_J_out") /\ Arg(2) > 0
    /\ Arg(1) > 0 /\ call.ret = Return(0)

\* C4: calc_rhs(J_in, J_out) is J_in + J_out, the same for the arguments
\* swapped, whatever the two arguments are.
C4_RhsSum ==
    Done("calc_rhs") =>
        /\ call.ret = Return(FAdd(Arg(1), Arg(2)))
        /\ call.ret = calc_rhs(Arg(2), Arg(1))

\* C4 witness: a positive inward and a negative outward current that add up
\* to a net current smaller than the inward one.
C4_Witness ==
    /\ Done("calc_rhs")
    /\ Arg(1) = One /\ Arg(2) = -Half
    /\ call.ret = Return(Half)

TimeConstantsNonZero ==
    /\ Done("calc_dh") => Arg(3) # 0 /\ Arg(4) # 0
    /\ Done("calc_J_in") => Arg(3) # 0
    /\ Done("calc_J_out") => Arg(2) # 0

\* C9 as stated: calc_dh, calc_J_in and calc_J_out end in ZeroDivisionError
\* when a time constant passed is zero, this is the only failure, and with
\* non-zero time constants every call returns a value.
C9_Original ==
    call.done =>
        /\ (Done("calc_dh") /\ (Arg(3) = 0 \/ Arg(4) = 0)) =>
               call.ret = Raise("ZeroDivisionError")
        /\ (Done("calc_J_in") /\ Arg(3) = 0) => call.ret = Raise("ZeroDivisionError")
        /\ (Done("calc_J_out") /\ Arg(2) = 0) => call.ret = Raise("ZeroDivisionError")
        /\ TimeConstantsNonZero => call.ret.exc = ""
        /\ call.ret.exc \in {"", "ZeroDivisionError"}

\* Whether the exact square of the finite float u rounds beyond MaxFinite:
\* u^2 >= MaxFinite plus half a unit in its last place, both sides divided
\* by 4^(Bias - 1).
SquareOverflows(u) ==
    LET v == Abs(u) \div 2 ^ (Bias - 1)
    IN  v * v >= Scale * (2 ^ (Prec + 1) - 1)

\* C9 amended: calc_dh raises ZeroDivisionError exactly when the time
\* constant of the branch it takes is zero (tau_open for u < u_gate,
\* tau_close otherwise); calc_J_in raises OverflowError exactly when u**2
\* overflows and otherwise ZeroDivisionError exactly when tau_in is zero;
\* calc_J_out raises ZeroDivisionError exactly when tau_out is zero; calc_rhs
\* never raises; every other call returns a value, whatever the arguments.
C9_Failures ==
    call.done =>
        /\ Done("calc_dh") =>
               call.ret.exc =
                   IF (IF Arg(2) < Arg(5) THEN Arg(4) ELSE Arg(3)) = 0
                   THEN "ZeroDivisionError" ELSE ""
        /\ Done("calc_J_in") =>
               call.ret.exc =
                   IF SquareOverflows(Arg(1))
                   THEN "OverflowError"
                   ELSE IF Arg(3) = 0 THEN "ZeroDivisionError" ELSE ""
        /\ Done("calc_J_out") =>
               call.ret.exc = IF Arg(2) = 0 THEN "ZeroDivisionError" ELSE ""
        /\ Done("calc_rhs") => call.ret.exc = ""

\* C9 witness: calc_dh given tau_open = 0 and arguments outside [0, 1]
\* took the decay branch and returned a value.
C9_Witness ==
    /\ Done("calc_dh") /\ Arg(4) = 0 /\ Arg(3) < 0
    /\ Arg(2) >= Arg(5) /\ Arg(1) > One
    /\ call.ret = Return(FDiv(FNeg(Arg(1)), Arg(3)))
    /\ call.ret.val > 0

----------------------------------------------------------------------------
(* Properties of the accessors, checked under SpecHeap. *)

\* C5: every call of get_variables returns a mapping with exactly the keys
\* u and h, u = 0.0 and h = 1.0, whatever was called or mutated before, and
\* no step changes a mapping other than the one it mutates.
C5_GetVariablesFresh ==
    [][/\ call'.op = "get_variables" => heap'[call'.ret.val] = [u |-> 0, h |-> One]
       /\ \A r \in DOMAIN heap :
              (held[r] = "get_variables" /\ heap'[r] # heap[r]) =>
                  (call'.op \in {"setitem", "delitem"} /\ call'.args[1] = r)]_vars

\* C5 witness: get_variables has just returned the defaults while a mapping
\* it returned earlier has lost the key u and gained the key x.
C5_Witness ==
    /\ call.op = "get_variables"
    /\ heap[call.ret.val] = [u |-> 0, h |-> One]
    /\ \E r \in DOMAIN heap :
          /\ r # call.ret.val /\ held[r] = "get_variables"
          /\ DOMAIN heap[r] = {"h", "x"} /\ heap[r]["x"] = Half

ParameterDefaults ==
    [tau_close |-> Lit(150, 1), tau_open |-> Lit(120, 1), tau_out |-> Lit(6, 1),
     tau_in |-> Lit(3, 10), u_gate |-> Lit(13, 100)]

\* C6: every call of get_parameters returns a mapping with exactly the five
\* default parameters, whatever was called or mutated before, and no step
\* changes a mapping other than the one it mutates.
C6_GetParametersFresh ==
    [][/\ call'.op = "get_parameters" => heap'[call'.ret.val] = ParameterDefaults
       /\ \A r \in DOMAIN heap :
              (held[r] = "get_parameters" /\ heap'[r] # heap[r]) =>
                  (call'.op \in {"setitem", "delitem"} /\ call'.args[1] = r)]_vars

\* C6 witness: get_parameters has just returned the defaults while a mapping
\* it returned earlier has a changed tau_in and an added key.
C6_Witness ==
    /\ call.op = "get_parameters"
    /\ heap[call.ret.val] = ParameterDefaults
    /\ \E r \in DOMAIN heap :
          /\ r # call.ret.val /\ held[r] = "get_parameters"
          /\ "x" \in DOMAIN heap[r] /\ heap[r]["tau_in"] = Half

----------------------------------------------------------------------------
(* Properties of the integration loops. *)

\* C7: from the default state under the default parameters the derivatives
\* are zero, and the Euler loop stays at (u, h) = (0, 1) whatever the step
\* sizes and however many steps it takes.
C7_RestFixedPoint ==
    loop.start = "default" =>
        /\ loop.u = 0 /\ loop.h = One
        /\ loop.st = "run" /\ loop.du = 0 /\ loop.dh = 0
        /\ Derivatives(loop.u, loop.h, loop.p) = <<Return(0), Return(0)>>

\* C7 witness: the loop has taken all its steps from the default state, the
\* last with the largest step size, and is where it started.
C7_Witness ==
    /\ loop.start = "default" /\ loop.n = MaxSteps /\ loop.dt = MaxFinite
    /\ loop.u = 0 /\ loop.h = One

FLe(a, b) == ~IsNaN(a) /\ ~IsNaN(b) /\ a <= b

\* A step of the gate loop from h: its derivative is >= 0 below the
\* threshold for h <= 1 and <= 0 at or above it for h >= 0.
GateDirection ==
    \A dh \in {calc_dh(loop.h, loop'.u, loop.p["tau_close"], loop.p["tau_open"],
                       loop.p["u_gate"])} :
        /\ (loop'.u < loop.p["u_gate"] /\ FLe(loop.h, One)) =>
               (dh.exc = "" /\ FLe(0, dh.val))
        /\ (loop'.u >= loop.p["u_gate"] /\ FLe(0, loop.h)) =>
               (dh.exc = "" /\ FLe(dh.val, 0))

InRange(h) == FLe(0, h) /\ FLe(h, One)

\* C10 as stated: calc_dh is >= 0 below the threshold for h <= 1 and <= 0
\* at or above it for h >= 0, and with 0 < dt <= min(tau_open, tau_close)
\* the Euler loop keeps h in [0, 1].
C10_Original ==
    [][GateDirection /\ (InRange(loop.h) => InRange(loop'.h))]_vars

\* C10 amended: the direction as stated; the Euler loop keeps h in [0, 1]
\* when the step is at most half of both time constants,
\* 0 < dt <= min(tau_open, tau_close) / 2, and both time constants are
\* normal floats (so that 1 / tau is finite).
C10_GateRange ==
    [][/\ GateDirection
       /\ (/\ InRange(loop.h) /\ loop'.half
           /\ loop.p["tau_open"] >= MinNormal
           /\ loop.p["tau_close"] >= MinNormal) => InRange(loop'.h)]_vars

\* C10 witness: under normal time constants, steps of at most half of them
\* have brought h down to exactly 0 by a decay step.
C10_Witness ==
    /\ loop.half /\ loop.dir = "down" /\ loop.h = 0
    /\ loop.u >= loop.p["u_gate"]
    /\ loop.p["tau_open"] >= MinNormal /\ loop.p["tau_close"] >= MinNormal

----------------------------------------------------------------------------
(* Properties of concurrent calls, checked under SpecConc. *)

\* What the call fn(args) returns when it runs alone.
Alone(fn, args) ==
    IF fn = "calc_dh" THEN calc_dh(args[1], args[2], args[3], args[4], args[5])
    ELSE IF fn = "calc_J_in" THEN calc_J_in(args[1], args[2], args[3])
    ELSE IF fn = "calc_J_out" THEN calc_J_out(args[1], args[2])
    ELSE calc_rhs(args[1], args[2])

\* C8: in every interleaving, every finished call has the outcome it has
\* when run alone with the same arguments; an accessor has returned a mapping
\* of its own holding the defaults; the variables the caller passed are
\* unchanged, and so are the frames of the calls still running.
C8_CallsIndependent ==
    \A t \in Threads :
        /\ thr[t].own = thr[t].args
        /\ (thr[t].pc = "done" /\ thr[t].fn \in {"calc_dh", "calc_J_in", "calc_J_out", "calc_rhs"})
               => thr[t].ret = Alone(thr[t].fn, thr[t].args)
        /\ (thr[t].pc = "done" /\ thr[t].fn = "get_variables")
               => /\ heap[thr[t].ret.val] = [u |-> 0, h |-> One]
                  /\ \A x \in Threads \ {t} :
                         (thr[x].pc = "done" /\ thr[x].fn = "get_variables")
                             => thr[x].ret.val # thr[t].ret.val
        /\ (thr[t].pc = "done" /\ thr[t].fn = "get_parameters")
               => /\ heap[thr[t].ret.val] = ParameterDefaults
                  /\ \A x \in Threads \ {t} :
                         (thr[x].pc = "done" /\ thr[x].fn = "get_parameters")
                             => thr[x].ret.val # thr[t].ret.val
        /\ thr[t].pc = "109" => thr[t].frame["C"] = CProduct(thr[t].args[1]).val
        /\ thr[t].pc = "81" =>
               Return(thr[t].frame["h"]) = Alone(thr[t].fn, thr[t].args)

\* C8 witness: a call of calc_J_in has finished with its own result while
\* another call of calc_J_in, entered with a different u, is between its
\* two statements, and calc_dh has rebound its h without changing the
\* caller's.
C8_Witness ==
    \E t \in Threads, x \in Threads :
        /\ thr[t].fn = "calc_J_in" /\ thr[t].pc = "done" /\ thr[t].ret.exc = ""
        /\ thr[x].fn = "calc_J_in" /\ thr[x].pc = "109"
        /\ thr[x].frame["C"] # thr[t].frame["C"]
        /\ thr[t].ret = calc_J_in(thr[t].args[1], thr[t].args[2], thr[t].args[3])

====
